---------------------------- MODULE Spec2Model ----------------------------
(***************************************************************************)
(* A model of snapuserd (fs_mgr/libsnapshot/snapuserd.cpp): the metadata   *)
(* build (ReadMetadata), the request loop (Run), the data and metadata     *)
(* read paths and the merge reconciliation (ProcessMergeComplete).         *)
(*                                                                         *)
(* Byte buffers are modelled at the granularity the code addresses them:   *)
(* the payload area as BLOCK_SIZE pages, a metadata page as its            *)
(* exceptions_per_area_ disk exceptions.                                   *)
(***************************************************************************)
EXTENDS Integers, Sequences, FiniteSets, TLC

(***************************************************************************)
(* Program constants.                                                      *)
(***************************************************************************)
PAYLOAD_SIZE == 65536

BLOCK_SIZE == 4096

BLOCK_SHIFT == 12

CHUNK_SIZE == 8

CHUNK_SHIFT == 3

SECTOR_SHIFT == 9

NUM_SNAPSHOT_HDR_CHUNKS == 1

SizeofDiskException == 16

SizeofDmUserHeader == 32

exceptions_per_area_ == (CHUNK_SIZE * (2 ^ SECTOR_SHIFT)) \div SizeofDiskException

kCowCopyOp == "kCowCopyOp"

kCowReplaceOp == "kCowReplaceOp"

kCowZeroOp == "kCowZeroOp"

kCowFooterOp == "kCowFooterOp"

kCowLabelOp == "kCowLabelOp"

kCowUnknownOp == "kCowUnknownOp"

DM_USER_REQ_MAP_READ == "DM_USER_REQ_MAP_READ"

DM_USER_REQ_MAP_WRITE == "DM_USER_REQ_MAP_WRITE"

DM_USER_REQ_MAP_FLUSH == "DM_USER_REQ_MAP_FLUSH"

DM_USER_RESP_SUCCESS == "DM_USER_RESP_SUCCESS"

DM_USER_RESP_ERROR == "DM_USER_RESP_ERROR"

(***************************************************************************)
(* Bounds of the model.                                                    *)
(***************************************************************************)
\* Longest CowLog whose op types are enumerated exhaustively.
MaxShortLen == 2

\* Long CowLogs have between k * exceptions_per_area_ and
\* k * exceptions_per_area_ + MaxOver ops, k in 1..MaxAreas.
MaxOver == 1

MaxAreas == 1

\* A sub-read (CowLog payload, base device) may fail at any of the first
\* MaxFailBlock blocks of a ReadData call.
MaxFailBlock == 2

(***************************************************************************)
(* The CowLog: n CowOperations in forward order.  A log is given by its    *)
(* length n, the op types (types, repeated cyclically up to n) and the     *)
(* destination block of its last op (base); CowOp(lg, i) is its i-th op.   *)
(***************************************************************************)
MergeableTypes == {kCowReplaceOp, kCowZeroOp, kCowCopyOp}

MetadataTypes == {kCowFooterOp, kCowLabelOp}

OpTypes == MergeableTypes \cup MetadataTypes \cup {kCowUnknownOp}

\* The op at forward position i of a log of n ops.  Destination blocks are
\* distinct; the last op of the log targets block blockBase.
CowOperation(type, i, n, blockBase) ==
    [type      |-> type,
     new_block |-> IF type \in MergeableTypes THEN blockBase + (n - i) ELSE 0,
     source    |-> IF type = kCowCopyOp THEN blockBase + (n - i) + 1 ELSE 0]

CowOp(lg, i) ==
    CowOperation(lg.types[((i - 1) % Len(lg.types)) + 1], i, lg.n, lg.base)

\* Every log of up to MaxShortLen ops.
ShortLogs ==
    UNION { { [n |-> n, types |-> t, base |-> b] :
                t \in [1..n -> OpTypes], b \in {0, 1} } : n \in 0..MaxShortLen }

\* A Label op followed by exceptions_per_area_ Zero ops.
LabelFirst ==
    [i \in 1..(exceptions_per_area_ + 1) |-> IF i = 1 THEN kCowLabelOp ELSE kCowZeroOp]

\* Patterns of op types repeated to build the long logs.
LongPatterns ==
    { <<kCowZeroOp>>, <<kCowCopyOp>>, <<kCowReplaceOp, kCowZeroOp>>,
      <<kCowLabelOp, kCowReplaceOp>>, <<kCowCopyOp, kCowZeroOp, kCowReplaceOp>>,
      <<kCowZeroOp, kCowReplaceOp, kCowZeroOp, kCowZeroOp>>, LabelFirst }

LongLens ==
    { k * exceptions_per_area_ + d : k \in 1..MaxAreas, d \in 0..MaxOver }

LongLogs ==
    { [n |-> n, types |-> p, base |-> 1] : n \in LongLens, p \in LongPatterns }

CowLogs == ShortLogs \cup LongLogs

IsMergeable(op) == op.type \in MergeableTypes

\* Number of Replace/Copy/Zero ops of a log.
NumMergeableOps(lg) == Cardinality({ i \in 1..lg.n : IsMergeable(CowOp(lg, i)) })

(***************************************************************************)
(* Disk exceptions and pages.                                              *)
(***************************************************************************)
ZeroDe == [old_chunk |-> 0, new_chunk |-> 0]

\* An area is a buffer of exceptions_per_area_ disk exceptions.  It is
\* held as the sequence of its entries up to the last non-zero one: the
\* entries behind it are zero.
At(area, i) == IF i <= Len(area) THEN area[i] ELSE ZeroDe

Trim(entries) ==
    IF entries = <<>> \/ entries[Len(entries)] # ZeroDe THEN entries
    ELSE SubSeq(entries, 1,
                CHOOSE i \in 0..Len(entries) :
                    /\ i = 0 \/ entries[i] # ZeroDe
                    /\ \A j \in (i + 1)..Len(entries) : entries[j] = ZeroDe)

\* A freshly allocated, memset area.
ZeroArea == <<>>

\* The area with de written at slot i (1-based).
StoreDe(area, i, de) ==
    Trim([k \in 1..(IF i > Len(area) THEN i ELSE Len(area)) |->
            IF k = i THEN de ELSE At(area, k)])

\* A BLOCK_SIZE page of the payload area.  kind "zero": all bytes zero;
\* "area": a page of disk exceptions (de); "hdr": the kernel COW header;
\* "cow": the payload of the Replace op at log position n; "base": the
\* base-device page at block n.
ZeroPage == [kind |-> "zero", n |-> 0, de |-> <<>>]

AreaPage(area) ==
    IF Trim(area) = ZeroArea THEN ZeroPage
    ELSE [kind |-> "area", n |-> 0, de |-> Trim(area)]

HeaderPage == [kind |-> "hdr", n |-> 0, de |-> <<>>]

CowPage(idx) == [kind |-> "cow", n |-> idx, de |-> <<>>]

BasePage(block) == [kind |-> "base", n |-> block, de |-> <<>>]

PayloadSlots == 0..((PAYLOAD_SIZE \div BLOCK_SIZE) - 1)

ZeroPayload == [s \in PayloadSlots |-> ZeroPage]

ZeroHeader == [seq |-> 0, type |-> DM_USER_REQ_MAP_READ, flags |-> 0, sector |-> 0, len |-> 0]

(***************************************************************************)
(* Chunk ids.                                                              *)
(***************************************************************************)
SectorToChunk(sector) == sector \div (2 ^ CHUNK_SHIFT)

ChunkToSector(chunk) == chunk * (2 ^ CHUNK_SHIFT)

\* Variant: the metadata test taken modulo the area size.
IsChunkIdMetadata_AreaSize(chunk) ==
    (chunk % exceptions_per_area_) = NUM_SNAPSHOT_HDR_CHUNKS

IsChunkIdMetadata(chunk) ==
    LET stride == exceptions_per_area_ + 1
    IN  (chunk % stride) = NUM_SNAPSHOT_HDR_CHUNKS

\* Variant: the next chunk id without the step over a metadata chunk.
GetNextAllocatableChunkId_NoSkip(chunk) == chunk + 1

\* Variant: the chunk id is stepped only over a metadata chunk.
GetNextAllocatableChunkId_NoAdvance(chunk) ==
    IF IsChunkIdMetadata(chunk) THEN chunk + 1 ELSE chunk

\* Variant: the step over a metadata chunk is decided on the chunk id
\* before the increment.
GetNextAllocatableChunkId_TestsBefore(chunk) ==
    IF IsChunkIdMetadata(chunk) THEN chunk + 2 ELSE chunk + 1

GetNextAllocatableChunkId(chunk) ==
    LET next_chunk == chunk + 1
    IN  IF IsChunkIdMetadata(next_chunk) THEN next_chunk + 1 ELSE next_chunk


(***************************************************************************)
(* BufferSink.  The buffer is a dm_user_header followed by the payload     *)
(* area; a payload pointer is modelled as its byte offset in the payload   *)
(* area, NULL as -1.                                                       *)
(***************************************************************************)
NULL == 0 - 1

\* buffer_size_ as set by InitCowDevice's bufsink_.Initialize(buf_size).
buffer_size_ == SizeofDmUserHeader + PAYLOAD_SIZE

GetPayloadBuffer(size, off) ==
    IF (buffer_size_ - off) < size THEN NULL ELSE off

\* memset/memcpy/read of one BLOCK_SIZE page at payload offset buffer.
StorePage(pl, buffer, page) == [pl EXCEPT ![buffer \div BLOCK_SIZE] = page]

Min(a, b) == IF a < b THEN a ELSE b

\* The bytes WriteFully puts on the control device after the header: the
\* first size bytes of the payload area, page by page.
TruncatePage(page, bytes) ==
    [page  |-> IF page.kind = "area"
               THEN [page EXCEPT !.de = SubSeq(@, 1, Min(Len(@), bytes \div SizeofDiskException))]
               ELSE page,
     bytes |-> bytes]

WirePayload(pl, size) ==
    [i \in 1..((size + BLOCK_SIZE - 1) \div BLOCK_SIZE) |->
        TruncatePage(pl[i - 1], Min(BLOCK_SIZE, size - (i - 1) * BLOCK_SIZE))]

\* Variant: the whole buffer is written whatever the size.
WriteDmUserPayload_WholeBuffer(hdr, pl, size) ==
    [header |-> hdr, bytes |-> buffer_size_, payload |-> WirePayload(pl, PAYLOAD_SIZE)]

\* What WriteDmUserPayload(size) writes: sizeof(dm_user_header) + size bytes
\* from the start of the buffer.
WriteDmUserPayload(hdr, pl, size) ==
    [header  |-> hdr,
     bytes   |-> SizeofDmUserHeader + size,
     payload |-> WirePayload(pl, size)]

(***************************************************************************)
(* The data read path.  Each operator takes the daemon state it reads      *)
(* (cmap: chunk_map_, ops: the CowLog) and the BufferSink state (pl, off)  *)
(* and returns the result with the new BufferSink state; ret is "true",    *)
(* "false", or "abort" when a CHECK fails.                                 *)
(***************************************************************************)
\* CowReader::ReadData for the Replace op at log position idx: BLOCK_SIZE
\* bytes of its payload go to the sink at its current offset.
CowReaderReadData(idx, pl, off, ioFails) ==
    LET buffer == GetPayloadBuffer(BLOCK_SIZE, off)
    IN  IF buffer = NULL \/ ioFails
        THEN [ret |-> "false", payload |-> pl]
        ELSE [ret |-> "true", payload |-> StorePage(pl, buffer, CowPage(idx))]

ProcessReplaceOp(idx, pl, off, ioFails) ==
    CowReaderReadData(idx, pl, off, ioFails)

\* Variant: the copy reads the base device at the destination block.
ProcessCopyOp_NewBlock(cow_op, pl, off, ioFails) ==
    LET buffer == GetPayloadBuffer(BLOCK_SIZE, off)
    IN  IF buffer = NULL THEN [ret |-> "abort", payload |-> pl]
        ELSE IF ioFails THEN [ret |-> "false", payload |-> pl]
        ELSE [ret |-> "true", payload |-> StorePage(pl, buffer, BasePage(cow_op.new_block))]

ProcessCopyOp(cow_op, pl, off, ioFails) ==
    LET buffer == GetPayloadBuffer(BLOCK_SIZE, off)
    IN  IF buffer = NULL THEN [ret |-> "abort", payload |-> pl]
        ELSE IF ioFails THEN [ret |-> "false", payload |-> pl]
        ELSE [ret |-> "true", payload |-> StorePage(pl, buffer, BasePage(cow_op.source))]

ProcessZeroOp(pl, off) ==
    LET buffer == GetPayloadBuffer(BLOCK_SIZE, off)
    IN  IF buffer = NULL THEN [ret |-> "abort", payload |-> pl]
        ELSE [ret |-> "true", payload |-> StorePage(pl, buffer, ZeroPage)]

\* Dispatch of one block by op type (the switch of ReadData).
ProcessOp(ops, idx, pl, off, ioFails) ==
    LET cow_op == CowOp(ops, idx)
    IN  CASE cow_op.type = kCowReplaceOp -> ProcessReplaceOp(idx, pl, off, ioFails)
          [] cow_op.type = kCowZeroOp    -> ProcessZeroOp(pl, off)
          [] cow_op.type = kCowCopyOp    -> ProcessCopyOp(cow_op, pl, off, ioFails)
          [] OTHER                       -> [ret |-> "false", payload |-> pl]

\* The while loop of ReadData; k counts the blocks, and the sub-read of
\* block failAt fails.  io tells whether a sub-read failed.
RECURSIVE ReadDataLoop(_, _, _, _, _, _, _, _)
ReadDataLoop(cmap, ops, chunk_key, read_size, pl, off, k, failAt) ==
    IF read_size = 0
    THEN [ret |-> "true", payload |-> pl, offset |-> 0, io |-> FALSE]
    ELSE IF chunk_key \notin DOMAIN cmap
    THEN [ret |-> "abort", payload |-> pl, offset |-> off, io |-> FALSE]
    ELSE
      LET cow_op == CowOp(ops, cmap[chunk_key])
          r      == ProcessOp(ops, cmap[chunk_key], pl, off, k = failAt)
          left   == read_size - BLOCK_SIZE
          stride == exceptions_per_area_ + 1
          moved  == [payload |-> r.payload, offset |-> off + BLOCK_SIZE, io |-> FALSE]
      IN  IF r.ret # "true"
          THEN [ret |-> r.ret, payload |-> r.payload, offset |-> off,
                io |-> (r.ret = "false" /\ k = failAt)]
          ELSE IF cow_op.type = kCowCopyOp /\ left # 0
          THEN [ret |-> "abort"] @@ moved
          ELSE IF ((chunk_key + 1) % stride) = NUM_SNAPSHOT_HDR_CHUNKS
          THEN IF left # 0
               THEN [ret |-> "abort"] @@ moved
               ELSE [ret |-> "true", payload |-> r.payload, offset |-> 0, io |-> FALSE]
          ELSE ReadDataLoop(cmap, ops, chunk_key + 1, left, r.payload,
                            off + BLOCK_SIZE, k + 1, failAt)

ReadData(cmap, ops, chunk, size, pl, off, failAt) ==
    IF (size % BLOCK_SIZE) # 0
    THEN [ret |-> "abort", payload |-> pl, offset |-> off, io |-> FALSE]
    ELSE ReadDataLoop(cmap, ops, chunk, size, pl, off, 1, failAt)

(***************************************************************************)
(* The metadata read path.                                                 *)
(***************************************************************************)
ZerofillDiskExceptions(read_size, pl, off) ==
    LET size   == exceptions_per_area_ * SizeofDiskException
        buffer == GetPayloadBuffer(size, off)
    IN  IF read_size > size THEN [ret |-> "false", payload |-> pl]
        ELSE IF buffer = NULL THEN [ret |-> "abort", payload |-> pl]
        ELSE [ret |-> "true", payload |-> StorePage(pl, buffer, ZeroPage)]

\* Variant: a stored area is served without the read_size test.
ReadDiskExceptions_NoSizeCheck(vec, chunk, read_size, pl, off) ==
    LET stride == exceptions_per_area_ + 1
        quot   == chunk \div stride
        size   == exceptions_per_area_ * SizeofDiskException
        buffer == GetPayloadBuffer(size, off)
    IN  IF quot < Len(vec)
        THEN IF buffer = NULL THEN [ret |-> "abort", payload |-> pl, vec |-> vec]
             ELSE [ret |-> "true", vec |-> vec,
                   payload |-> StorePage(pl, buffer, AreaPage(vec[quot + 1]))]
        ELSE [vec |-> vec] @@ ZerofillDiskExceptions(read_size, pl, off)

\* Variant: the stored area is handed over to the payload and left empty.
ReadDiskExceptions_TakesArea(vec, chunk, read_size, pl, off) ==
    LET stride == exceptions_per_area_ + 1
        quot   == chunk \div stride
        size   == exceptions_per_area_ * SizeofDiskException
        buffer == GetPayloadBuffer(size, off)
    IN  IF quot < Len(vec)
        THEN IF read_size > size THEN [ret |-> "false", payload |-> pl, vec |-> vec]
             ELSE IF buffer = NULL THEN [ret |-> "abort", payload |-> pl, vec |-> vec]
             ELSE [ret |-> "true", vec |-> [vec EXCEPT ![quot + 1] = ZeroArea],
                   payload |-> StorePage(pl, buffer, AreaPage(vec[quot + 1]))]
        ELSE [vec |-> vec] @@ ZerofillDiskExceptions(read_size, pl, off)

\* vec: the areas as the call leaves them.
ReadDiskExceptions(vec, chunk, read_size, pl, off) ==
    LET stride == exceptions_per_area_ + 1
        quot   == chunk \div stride
        size   == exceptions_per_area_ * SizeofDiskException
        buffer == GetPayloadBuffer(size, off)
    IN  IF quot < Len(vec)
        THEN IF read_size > size THEN [ret |-> "false", payload |-> pl, vec |-> vec]
             ELSE IF buffer = NULL THEN [ret |-> "abort", payload |-> pl, vec |-> vec]
             ELSE [ret |-> "true", vec |-> vec,
                   payload |-> StorePage(pl, buffer, AreaPage(vec[quot + 1]))]
        ELSE [vec |-> vec] @@ ZerofillDiskExceptions(read_size, pl, off)

ConstructKernelCowHeader(pl, off) ==
    LET buffer == GetPayloadBuffer(BLOCK_SIZE, off)
    IN  IF buffer = NULL THEN [ret |-> "abort", payload |-> pl]
        ELSE [ret |-> "true", payload |-> StorePage(pl, buffer, HeaderPage)]

(***************************************************************************)
(* Merge reconciliation.  The loops of GetMergeStartOffset,                *)
(* GetNumberOfMergedOps and AdvanceMergedOps run up to                     *)
(* exceptions_per_area_ + 1 times; each is given by where it stops.        *)
(***************************************************************************)
\* Number of leading entries of a page that may be non-zero.
PageLen(page) == IF page.kind = "area" THEN Len(page.de) ELSE 0

PageDe(page, i) ==
    CASE page.kind = "area" -> At(page.de, i + 1)
      [] page.kind = "zero" -> ZeroDe

\* merged_de at index i of the buffer the kernel wrote.  The buffer is the
\* payload area: index exceptions_per_area_ lies in its second page.
MergedDe(pl, i) ==
    IF i < exceptions_per_area_
    THEN PageDe(pl[0], i)
    ELSE PageDe(pl[1], i - exceptions_per_area_)

\* cow_de at index i of the stored area.  The area is an allocation of
\* exceptions_per_area_ entries: index exceptions_per_area_ is read out of
\* bounds, and oob is what the read yields.
CowDe(area, i, oob) ==
    IF i < exceptions_per_area_ THEN At(area, i + 1) ELSE oob

\* What an out-of-bounds read of a disk_exception can yield.
OobValues ==
    { ZeroDe, [old_chunk |-> 1, new_chunk |-> 1], [old_chunk |-> 1, new_chunk |-> 0] }

\* Index exceptions_per_area_ of a stored area is reached only when the
\* area holds exceptions_per_area_ entries.
OobChoices(area) ==
    IF Len(area) < exceptions_per_area_ THEN { ZeroDe } ELSE OobValues

\* Least element of a non-empty set of integers.
Least(S) == CHOOSE x \in S : \A y \in S : x <= y

\* The loop visits indexes 0, 1, ... while merged_de->old_chunk != 0 and
\* stops at the first index whose old_chunk is 0; a CHECK fails when a
\* visited unmerged entry has new_chunk 0 or differs from the stored one,
\* when the entry it stops at has new_chunk != 0, or when it stops at
\* exceptions_per_area_.
GetMergeStartOffset(pl, area) ==
    LET lim   == Min(PageLen(pl[0]), exceptions_per_area_)
        \* entries behind lim are zero: the loop stops at lim at the latest
        stops == { i \in 0..lim : MergedDe(pl, i).old_chunk = 0 }
        first == IF stops = {} THEN exceptions_per_area_ + 1 ELSE Least(stops)
        bad   == \/ \E i \in 0..(first - 1) :
                       \/ MergedDe(pl, i).new_chunk = 0
                       \/ i >= exceptions_per_area_
                       \/ MergedDe(pl, i) # At(area, i + 1)
                 \/ first <= exceptions_per_area_ /\ MergedDe(pl, first).new_chunk # 0
                 \/ first = exceptions_per_area_
    IN  [ret                 |-> IF bad THEN "abort" ELSE "ok",
         offset              |-> first * SizeofDiskException,
         unmerged_exceptions |-> first]

\* The loop visits indexes from unmerged_exceptions while the stored entry
\* has new_chunk != 0 and index <= exceptions_per_area_, zeroing each; it
\* stops at the first stored entry with new_chunk = 0 (returning -1 when
\* that entry's old_chunk != 0).  A CHECK fails when a visited merged_de is
\* not zero.
GetNumberOfMergedOps(pl, area, offset, unmerged_exceptions, oob) ==
    LET start   == offset \div SizeofDiskException
        lim     == Min(Len(area), exceptions_per_area_)
        \* stored entries behind lim are zero: the loop stops at lim at the
        \* latest, unless lim is exceptions_per_area_
        stops   == { i \in start..lim : CowDe(area, i, oob).new_chunk = 0 }
        stop    == IF stops = {} THEN exceptions_per_area_ + 1 ELSE Least(stops)
        last    == Min(stop, exceptions_per_area_)
        bad     == \E i \in start..last : MergedDe(pl, i) # ZeroDe
        invalid == stop <= exceptions_per_area_ /\ CowDe(area, stop, oob).old_chunk # 0
    IN  [ret  |-> IF bad THEN "abort" ELSE "ok",
         merged_ops_cur_iter |-> IF invalid THEN 0 - 1 ELSE stop - start,
         \* the highest index at which the loop dereferenced cow_de
         top  |-> last,
         area |-> Trim([i \in 1..Len(area) |->
                         IF start < i /\ i <= stop THEN ZeroDe ELSE area[i]])]

\* Variant: the iterator running out with merged ops left is accepted.
AdvanceMergedOps_NoEndCheck(ops, iter, merged_ops_cur_iter) ==
    LET rest      == iter..ops.n
        passed(p) == Cardinality({ i \in iter..p : IsMergeable(CowOp(ops, i)) })
        unknown   == { i \in rest :
                         CowOp(ops, i).type \notin (MergeableTypes \cup MetadataTypes) }
        enough    == passed(ops.n) >= merged_ops_cur_iter
        lastOp    == CHOOSE p \in (iter + merged_ops_cur_iter - 1)..ops.n :
                         IsMergeable(CowOp(ops, p)) /\ passed(p) = merged_ops_cur_iter
        stopAt    == IF enough THEN lastOp + 1 ELSE ops.n + 1
    IN  IF unknown # {} /\ Least(unknown) < stopAt
        THEN [ret |-> "false", iter |-> Least(unknown)]
        ELSE [ret |-> "true", iter |-> stopAt]

\* The loop passes Label/Footer ops freely and one Replace/Zero/Copy op per
\* merged op; it returns false at an op of another type, and a CHECK fails
\* when the iterator is Done with merged ops left.
AdvanceMergedOps(ops, iter, merged_ops_cur_iter) ==
    LET rest      == iter..ops.n
        passed(p) == Cardinality({ i \in iter..p : IsMergeable(CowOp(ops, i)) })
        unknown   == { i \in rest :
                         CowOp(ops, i).type \notin (MergeableTypes \cup MetadataTypes) }
        enough    == passed(ops.n) >= merged_ops_cur_iter
        \* the op that takes the last merged op
        lastOp    == CHOOSE p \in (iter + merged_ops_cur_iter - 1)..ops.n :
                         IsMergeable(CowOp(ops, p)) /\ passed(p) = merged_ops_cur_iter
        stopAt    == IF enough THEN lastOp + 1 ELSE ops.n + 1
    IN  IF unknown # {} /\ Least(unknown) < stopAt
        THEN [ret |-> "false", iter |-> Least(unknown)]
        ELSE IF ~enough
        THEN [ret |-> "abort", iter |-> ops.n + 1]
        ELSE [ret |-> "true", iter |-> stopAt]

\* CowWriter::CommitMerge(n): the durable increment of num_merge_ops.
CommitMerge(merge_ops, n, commitFails) ==
    IF commitFails THEN [ret |-> "false", num_merge_ops |-> merge_ops]
    ELSE [ret |-> "true", num_merge_ops |-> merge_ops + n]

\* CowReader::UpdateMergeProgress(n): the in-memory count.
UpdateMergeProgress(progress, n) == progress + n

\* st: [vec, iter, progress, merge_ops], the state the reconciler updates;
\* commit tells whether CommitMerge failed.
ProcessMergeComplete(ops, st, chunk, pl, oob, commitFails) ==
    LET stride == exceptions_per_area_ + 1
        quot   == chunk \div stride
    IN  IF ~(quot < Len(st.vec)) THEN [ret |-> "abort", st |-> st, commit |-> FALSE]
        ELSE
          LET a == GetMergeStartOffset(pl, st.vec[quot + 1])
          IN  IF a.ret = "abort" THEN [ret |-> "abort", st |-> st, commit |-> FALSE]
              ELSE
                LET b == GetNumberOfMergedOps(pl, st.vec[quot + 1], a.offset,
                                             a.unmerged_exceptions, oob)
                    st1 == [st EXCEPT !.vec[quot + 1] = b.area]
                IN  IF b.ret = "abort" \/ ~(b.merged_ops_cur_iter > 0)
                    THEN [ret |-> "abort", st |-> st1, commit |-> FALSE]
                    ELSE
                      LET c   == AdvanceMergedOps(ops, st.iter, b.merged_ops_cur_iter)
                          st2 == [st1 EXCEPT !.iter = c.iter]
                          w   == CommitMerge(st.merge_ops, b.merged_ops_cur_iter, commitFails)
                      IN  IF c.ret # "true"
                          THEN [ret |-> c.ret, st |-> st2, commit |-> FALSE]
                          ELSE [ret |-> w.ret, commit |-> (w.ret = "false"),
                                st  |-> [st2 EXCEPT
                                           !.progress = UpdateMergeProgress(@, b.merged_ops_cur_iter),
                                           !.merge_ops = w.num_merge_ops]]

(***************************************************************************)
(* State.                                                                  *)
(***************************************************************************)
VARIABLES
    pc,                   \* position of the daemon
    log,                  \* the CowLog (reader_)
    cowop_riter_,         \* reverse iterator: position in log, 0 when Done
    cowop_iter_,          \* forward iterator: position in log, Len+1 when Done
    next_free,            \* ReadMetadata local
    prev_copy_op,         \* ReadMetadata local
    metadata_found,       \* ReadMetadata local
    num_ops,              \* ReadMetadata local (offset = num_ops * 16)
    de_ptr,               \* ReadMetadata local: the area being filled
    vec_,                 \* the areas
    chunk_map_,           \* chunk id -> position in log of its op
    num_sectors_,
    metadata_read_done_,
    num_merge_ops,        \* the CowLog header's durable merge count
    merge_progress,       \* the CowReader's in-memory merge count
    header,               \* bufsink_: the dm_user_header at the buffer start
    payload,              \* bufsink_: the payload area, page by page
    buffer_offset_,       \* bufsink_: the payload offset
    remaining_size,       \* Run local (MAP_READ)
    offset,               \* Run local (MAP_READ)
    req,                  \* the request header as read from the control device
    frames,               \* what was written to the control device for req
    io_failed,            \* the device operations that failed while serving req
    regions,              \* bufsink_: what the calls since the last reset returned
    replay                \* the frames of the READ that is being issued again

metaVars ==
    <<log, cowop_riter_, next_free, prev_copy_op, metadata_found,
      num_ops, de_ptr, chunk_map_, num_sectors_, metadata_read_done_>>

mergeVars == <<vec_, cowop_iter_, num_merge_ops, merge_progress>>

sinkVars == <<header, payload, buffer_offset_>>

runVars == <<remaining_size, offset, req, frames, io_failed>>

vars == <<pc, metaVars, mergeVars, sinkVars, runVars, regions, replay>>

Init ==
    /\ log \in CowLogs
    /\ pc = "ReadMetadata"
    /\ cowop_riter_ = log.n
    /\ cowop_iter_ = 0
    /\ next_free = NUM_SNAPSHOT_HDR_CHUNKS + 1
    /\ prev_copy_op = FALSE
    /\ metadata_found = FALSE
    /\ num_ops = 0
    /\ de_ptr = ZeroArea
    /\ vec_ = <<>>
    /\ chunk_map_ = <<>>
    /\ num_sectors_ = 0
    /\ metadata_read_done_ = FALSE
    /\ num_merge_ops = 0
    /\ merge_progress = 0
    /\ header = ZeroHeader
    /\ payload = ZeroPayload
    /\ buffer_offset_ = 0
    /\ remaining_size = 0
    /\ offset = 0
    /\ req = ZeroHeader
    /\ frames = <<>>
    /\ io_failed = {}
    /\ regions = <<>>
    /\ replay = <<>>

(***************************************************************************)
(* ReadMetadata: one iteration of the reverse pass per step.               *)
(***************************************************************************)
\* The iteration skips a Label or Footer op.
ReadMetadataSkip ==
    /\ pc = "ReadMetadata"
    /\ cowop_riter_ > 0
    /\ CowOp(log, cowop_riter_).type \in MetadataTypes
    /\ cowop_riter_' = cowop_riter_ - 1
    /\ UNCHANGED <<pc, log, next_free, prev_copy_op, metadata_found, num_ops,
                   de_ptr, chunk_map_, num_sectors_, metadata_read_done_>>
    /\ UNCHANGED <<mergeVars, sinkVars, runVars>>
    /\ UNCHANGED <<regions, replay>>

\* The iteration meets an op that is none of Replace, Zero, Copy.
ReadMetadataUnknown ==
    /\ pc = "ReadMetadata"
    /\ cowop_riter_ > 0
    /\ CowOp(log, cowop_riter_).type \notin MetadataTypes
    /\ ~IsMergeable(CowOp(log, cowop_riter_))
    /\ pc' = "init_failed"
    /\ UNCHANGED <<metaVars, mergeVars, sinkVars, runVars>>
    /\ UNCHANGED <<regions, replay>>

\* Variant: every op receives the next free chunk id as it stands.
AssignedChunk_NoCopySkip(cow_op, free, prev_copy) == free

\* Variant: the exception records the source block of the op.
DiskException_Source(cow_op, chunk) ==
    [old_chunk |-> IF cow_op.type = kCowCopyOp THEN cow_op.source ELSE cow_op.new_block,
     new_chunk |-> chunk]

\* The chunk id the op under the reverse iterator receives.
AssignedChunk(cow_op, free, prev_copy) ==
    IF cow_op.type = kCowCopyOp \/ prev_copy
    THEN GetNextAllocatableChunkId(free)
    ELSE free

\* The disk exception of an op that receives the chunk id chunk.
DiskException(cow_op, chunk) ==
    [old_chunk |-> cow_op.new_block, new_chunk |-> chunk]

\* The iteration assigns a chunk id to a Replace, Zero or Copy op.
ReadMetadataOp ==
    /\ pc = "ReadMetadata"
    /\ cowop_riter_ > 0
    /\ IsMergeable(CowOp(log, cowop_riter_))
    /\ LET cow_op == CowOp(log, cowop_riter_)
           chunk  == AssignedChunk(cow_op, next_free, prev_copy_op)
           de     == DiskException(cow_op, chunk)
           filled == StoreDe(de_ptr, num_ops + 1, de)
           full   == (num_ops + 1 = exceptions_per_area_)
           done   == (cowop_riter_ - 1 = 0)
       IN  /\ metadata_found' = TRUE
           /\ prev_copy_op' = (cow_op.type = kCowCopyOp)
           /\ chunk_map_' = (chunk :> cowop_riter_) @@ chunk_map_
           /\ cowop_riter_' = cowop_riter_ - 1
           /\ IF full
              THEN /\ vec_' = IF done THEN vec_ \o <<filled, ZeroArea>>
                                      ELSE Append(vec_, filled)
                   /\ num_ops' = 0
                   /\ de_ptr' = ZeroArea
              ELSE /\ vec_' = vec_
                   /\ num_ops' = num_ops + 1
                   /\ de_ptr' = filled
           /\ next_free' = GetNextAllocatableChunkId(chunk)
    /\ UNCHANGED <<pc, log, num_sectors_, metadata_read_done_>>
    /\ UNCHANGED <<cowop_iter_, num_merge_ops, merge_progress, sinkVars, runVars>>
    /\ UNCHANGED <<regions, replay>>

\* The reverse iterator is Done: push the partial area, start the forward
\* iterator.
ReadMetadataDone ==
    /\ pc = "ReadMetadata"
    /\ cowop_riter_ = 0
    /\ vec_' = IF num_ops > 0 \/ ~metadata_found THEN Append(vec_, de_ptr) ELSE vec_
    /\ cowop_iter_' = 1
    /\ num_sectors_' = ChunkToSector(next_free)
    /\ metadata_read_done_' = TRUE
    /\ pc' = "InitBackingAndControlDevice"
    /\ UNCHANGED <<log, cowop_riter_, next_free, prev_copy_op, metadata_found,
                   num_ops, de_ptr, chunk_map_>>
    /\ UNCHANGED <<num_merge_ops, merge_progress, sinkVars, runVars>>
    /\ UNCHANGED <<regions, replay>>

\* The backing and control devices are opened, or one open fails.
InitBackingAndControlDevice ==
    /\ pc = "InitBackingAndControlDevice"
    /\ \E opened \in BOOLEAN : pc' = IF opened THEN "Run" ELSE "init_failed"
    /\ UNCHANGED <<metaVars, mergeVars, sinkVars, runVars>>
    /\ UNCHANGED <<regions, replay>>

(***************************************************************************)
(* The kernel side of the control device: the requests it sends.           *)
(***************************************************************************)
\* Exceptions merged per merge cycle on a long area (scenario E5).
MergeBatch == 100

\* (seq, flags) of a request: ReqTags below.

\* For the long logs the kernel's requests are a subset of those for the
\* short ones.
LongLog == log.n > MaxShortLen

ReqTags == IF LongLog THEN { <<1, 0>> } ELSE { <<1, 0>>, <<2, 1>> }

ReqLens(type) ==
    IF type = DM_USER_REQ_MAP_READ
    THEN IF LongLog
         THEN {BLOCK_SIZE, PAYLOAD_SIZE + BLOCK_SIZE, 2 * PAYLOAD_SIZE}
         ELSE {0, 512, BLOCK_SIZE, 2 * BLOCK_SIZE, PAYLOAD_SIZE, PAYLOAD_SIZE + BLOCK_SIZE}
    ELSE IF LongLog THEN {BLOCK_SIZE} ELSE {0, BLOCK_SIZE}

\* Chunks requested: the first ones, those around each stride boundary,
\* those around the end of the device, and the first area past the table.
ReqChunks ==
    LET stride == exceptions_per_area_ + 1
    IN  { c \in 0..(next_free + 1) :
            \/ c <= (IF LongLog THEN 3 ELSE 2 * MaxShortLen + 3)
            \/ (c % stride) <= 2
            \/ c >= next_free - 1 }
        \cup { Len(vec_) * stride + NUM_SNAPSHOT_HDR_CHUNKS }

\* Sectors requested: chunk-aligned, and one inside chunk 0.
ReqSectors == { ChunkToSector(c) : c \in ReqChunks } \cup { CHUNK_SIZE \div 2 }

Requests ==
    UNION { { [seq |-> tag[1], type |-> t, flags |-> tag[2], sector |-> s, len |-> l] :
                tag \in ReqTags, s \in ReqSectors, l \in ReqLens(t) } :
            t \in {DM_USER_REQ_MAP_READ, DM_USER_REQ_MAP_WRITE} }
    \cup
    { [seq |-> tag[1], type |-> DM_USER_REQ_MAP_FLUSH, flags |-> tag[2],
       sector |-> 0, len |-> 0] : tag \in ReqTags }

\* Whether CommitMerge may fail.
CommitOutcomes == IF LongLog THEN { FALSE } ELSE BOOLEAN

\* Number of live entries of a stored area.
LiveEntries(area) ==
    Cardinality({ i \in 1..Len(area) : area[i].new_chunk # 0 })

\* Where the kernel's merge may have stopped in an area of m live entries:
\* entries [j, m) are merged.
MergeFrontiers(m) ==
    { j \in 0..m : j = 0 \/ j = m \/ j = m - MergeBatch \/ m <= MaxShortLen }

\* The page a merge-completion WRITE for the area carries: the stored
\* entries below the frontier, zero from the frontier on.
MergedPage(area, j) ==
    AreaPage(SubSeq(area, 1, j))

\* The stored area a metadata chunk addresses, if any.
AreaOf(chunk) ==
    LET quot == chunk \div (exceptions_per_area_ + 1)
    IN  IF quot < Len(vec_) THEN vec_[quot + 1] ELSE ZeroArea

IncomingPages(chunk) ==
    LET quot == chunk \div (exceptions_per_area_ + 1)
    IN  IF quot < Len(vec_)
        THEN { MergedPage(vec_[quot + 1], j) :
                 j \in MergeFrontiers(LiveEntries(vec_[quot + 1])) }
        ELSE { ZeroPage }

(***************************************************************************)
(* Run.                                                                    *)
(***************************************************************************)
\* BufferSink::Clear: the buffer is zeroed and the offset is 0.
Clear == [header |-> ZeroHeader, payload |-> ZeroPayload, buffer_offset_ |-> 0]

\* The request loop calls Run (again): Run clears the buffer and blocks in
\* ReadDmUserHeader.  req and frames record the request in progress.
RunEnter ==
    /\ pc = "Run"
    /\ header' = Clear.header
    /\ payload' = Clear.payload
    /\ buffer_offset_' = Clear.buffer_offset_
    /\ remaining_size' = 0
    /\ offset' = 0
    /\ req' = ZeroHeader
    /\ frames' = <<>>
    /\ io_failed' = {}
    /\ pc' = "ReadDmUserHeader"
    /\ replay' = <<>>
    /\ UNCHANGED <<metaVars, mergeVars>>
    /\ UNCHANGED regions

\* ReadDmUserHeader reads a header, and Run dispatches on header->type.  A
\* type that is no case of the switch makes Run return true.
RunHeader ==
    /\ pc = "ReadDmUserHeader"
    /\ \E h \in Requests :
         /\ header' = h
         /\ req' = h
         /\ remaining_size' = IF h.type = DM_USER_REQ_MAP_READ THEN h.len ELSE 0
         /\ pc' = CASE h.type = DM_USER_REQ_MAP_READ  -> "MAP_READ"
                    [] h.type = DM_USER_REQ_MAP_WRITE -> "MAP_WRITE"
                    [] OTHER                          -> "Run"
    /\ UNCHANGED <<metaVars, mergeVars, payload, buffer_offset_, offset, frames,
                   io_failed>>
    /\ UNCHANGED <<regions, replay>>

\* ReadDmUserHeader fails: Run returns false.
RunHeaderFails ==
    /\ pc = "ReadDmUserHeader"
    /\ pc' = "exited"
    /\ io_failed' = {"ReadDmUserHeader"}
    /\ UNCHANGED <<metaVars, mergeVars, sinkVars, remaining_size, offset, req, frames>>
    /\ UNCHANGED <<regions, replay>>

\* Variant: the response header is built afresh from seq and type.
RespHeader_Fresh(hdr, ret) ==
    [ZeroHeader EXCEPT !.seq = hdr.seq,
                       !.type = IF ret = "true" THEN DM_USER_RESP_SUCCESS
                                                ELSE DM_USER_RESP_ERROR]

\* The response header: the request's, with the type replaced.
RespHeader(hdr, ret) ==
    [hdr EXCEPT !.type = IF ret = "true" THEN DM_USER_RESP_SUCCESS
                                         ELSE DM_USER_RESP_ERROR]

\* The size of the next frame of the MAP_READ loop.
ReadSize(remaining) == Min(PAYLOAD_SIZE, remaining)

\* What one iteration of the MAP_READ loop puts in the payload.
ReadDispatch(read_size, failAt) ==
    IF header.sector = 0
    THEN IF ~metadata_read_done_ \/ read_size # BLOCK_SIZE
         THEN [ret |-> "abort", payload |-> payload, offset |-> buffer_offset_,
               io |-> FALSE, vec |-> vec_]
         ELSE LET r == ConstructKernelCowHeader(payload, buffer_offset_)
              IN  [ret |-> r.ret, payload |-> r.payload, offset |-> buffer_offset_,
                   io |-> FALSE, vec |-> vec_]
    ELSE LET chunk == SectorToChunk(header.sector)
         IN  IF chunk \notin DOMAIN chunk_map_
             THEN LET r == ReadDiskExceptions(vec_, chunk, read_size, payload,
                                              buffer_offset_)
                  IN  [ret |-> r.ret, payload |-> r.payload, offset |-> buffer_offset_,
                       io |-> FALSE, vec |-> r.vec]
             ELSE LET num_chunks_read == offset \div (2 ^ BLOCK_SHIFT)
                  IN  [vec |-> vec_] @@
                      ReadData(chunk_map_, log, chunk + num_chunks_read, read_size,
                               payload, buffer_offset_, failAt)

\* One iteration of the do-while loop of the MAP_READ case.
MapReadFrame ==
    /\ pc = "MAP_READ"
    /\ \E failAt \in 0..MaxFailBlock, writeFails \in BOOLEAN :
         LET read_size == ReadSize(remaining_size)
             r   == ReadDispatch(read_size, failAt)
             hdr == RespHeader(header, r.ret)
             io  == IF r.io THEN {"ReadData"} ELSE {}
         IN  /\ payload' = r.payload
             /\ buffer_offset_' = r.offset
             /\ vec_' = r.vec
             /\ IF r.ret = "abort"
                THEN /\ pc' = "aborted"
                     /\ header' = RespHeader(header, "true")
                     /\ io_failed' = io_failed \cup io
                     /\ UNCHANGED <<remaining_size, offset, frames>>
                ELSE /\ header' = hdr
                     /\ IF writeFails
                        THEN /\ pc' = "exited"
                             /\ io_failed' = io_failed \cup io \cup {"WriteDmUserPayload"}
                             /\ UNCHANGED <<remaining_size, offset, frames>>
                        ELSE /\ io_failed' = io_failed \cup io
                             /\ frames' = Append(frames,
                                            WriteDmUserPayload(hdr, r.payload, read_size))
                             /\ remaining_size' = remaining_size - read_size
                             /\ offset' = offset + read_size
                             /\ pc' = IF remaining_size - read_size = 0
                                      THEN "Run" ELSE "MAP_READ"
    /\ UNCHANGED <<metaVars, cowop_iter_, num_merge_ops, merge_progress, req>>
    /\ UNCHANGED <<regions, replay>>

\* The MAP_WRITE case for sector 0: a flush.
MapWriteFlush ==
    /\ pc = "MAP_WRITE"
    /\ header.sector = 0
    /\ \E writeFails \in BOOLEAN :
         IF header.len # 0
         THEN /\ pc' = "aborted"
              /\ UNCHANGED <<header, frames, io_failed>>
         ELSE LET hdr == RespHeader(header, "true")
              IN  /\ header' = hdr
                  /\ IF writeFails
                     THEN /\ pc' = "exited"
                          /\ io_failed' = {"WriteDmUserPayload"}
                          /\ UNCHANGED frames
                     ELSE /\ pc' = "Run"
                          /\ frames' = Append(frames, WriteDmUserPayload(hdr, payload, 0))
                          /\ UNCHANGED io_failed
    /\ UNCHANGED <<metaVars, mergeVars, payload, buffer_offset_,
                   remaining_size, offset, req>>
    /\ UNCHANGED <<regions, replay>>

\* The MAP_WRITE case for a merge completion.
MapWriteMerge ==
    /\ pc = "MAP_WRITE"
    /\ header.sector # 0
    /\ LET read_size == Min(PAYLOAD_SIZE, header.len)
           chunk     == SectorToChunk(header.sector)
           buffer    == GetPayloadBuffer(read_size, buffer_offset_)
           st        == [vec |-> vec_, iter |-> cowop_iter_,
                         progress |-> merge_progress, merge_ops |-> num_merge_ops]
       IN  IF \/ read_size # BLOCK_SIZE
              \/ chunk \in DOMAIN chunk_map_
              \/ buffer = NULL
           THEN /\ pc' = "aborted"
                /\ UNCHANGED <<mergeVars, sinkVars, frames, io_failed>>
           ELSE
             \E page \in IncomingPages(chunk), readFails \in BOOLEAN,
                oob \in OobChoices(AreaOf(chunk)),
                commitFails \in CommitOutcomes, writeFails \in BOOLEAN :
               LET pl  == IF readFails THEN payload ELSE StorePage(payload, buffer, page)
                   m   == IF readFails THEN [ret |-> "false", st |-> st, commit |-> FALSE]
                          ELSE ProcessMergeComplete(log, st, chunk, pl, oob, commitFails)
                   hdr == RespHeader(header, m.ret)
                   io  == (IF readFails THEN {"ReadDmUserPayload"} ELSE {})
                          \cup (IF m.commit THEN {"CommitMerge"} ELSE {})
               IN  /\ payload' = pl
                   /\ vec_' = m.st.vec
                   /\ cowop_iter_' = m.st.iter
                   /\ merge_progress' = m.st.progress
                   /\ num_merge_ops' = m.st.merge_ops
                   /\ UNCHANGED buffer_offset_
                   /\ IF m.ret = "abort"
                      THEN /\ pc' = "aborted"
                           /\ header' = RespHeader(header, "true")
                           /\ io_failed' = io
                           /\ UNCHANGED frames
                      ELSE /\ header' = hdr
                           /\ IF writeFails
                              THEN /\ pc' = "exited"
                                   /\ io_failed' = io \cup {"WriteDmUserPayload"}
                                   /\ UNCHANGED frames
                              ELSE /\ pc' = "Run"
                                   /\ io_failed' = io
                                   /\ frames' = Append(frames,
                                                  WriteDmUserPayload(hdr, pl, 0))
    /\ UNCHANGED <<metaVars, remaining_size, offset, req>>
    /\ UNCHANGED <<regions, replay>>

Next ==
    \/ ReadMetadataSkip
    \/ ReadMetadataUnknown
    \/ ReadMetadataOp
    \/ ReadMetadataDone
    \/ InitBackingAndControlDevice
    \/ RunEnter
    \/ RunHeader
    \/ RunHeaderFails
    \/ MapReadFrame
    \/ MapWriteFlush
    \/ MapWriteMerge

Spec == Init /\ [][Next]_vars

(***************************************************************************)
(* Properties.                                                             *)
(***************************************************************************)
Keys == DOMAIN chunk_map_

\* The op a ChunkMap key stands for.
KeyOp(c) == CowOp(log, chunk_map_[c])

\* Forward positions of the Replace/Zero/Copy ops of the log.
MergeableIdx == { i \in 1..log.n : IsMergeable(CowOp(log, i)) }

\* ReadMetadata has returned true and no request has been read yet.
MetadataBuilt == pc = "InitBackingAndControlDevice"

\* How many Replace/Zero/Copy ops the reverse pass meets before the op at idx.
ReversePos(idx) == Cardinality({ j \in MergeableIdx : j > idx })

\* The chunk and the number of whole blocks the request names.
ReqChunk == SectorToChunk(req.sector)

ReqBlocks == req.len \div BLOCK_SIZE

\* The snapshot's data for the block keyed by c.
OpData(c) ==
    LET op == KeyOp(c)
    IN  CASE op.type = kCowReplaceOp -> CowPage(chunk_map_[c])
          [] op.type = kCowZeroOp    -> ZeroPage
          [] op.type = kCowCopyOp    -> BasePage(op.source)

\* req is a READ of whole blocks that starts at the first sector of a keyed
\* chunk and runs over contiguous keys.
DataRead ==
    /\ req.type = DM_USER_REQ_MAP_READ
    /\ req.sector = ReqChunk * CHUNK_SIZE
    /\ req.len % BLOCK_SIZE = 0
    /\ ReqBlocks >= 1
    /\ \A j \in 0..(ReqBlocks - 1) : (ReqChunk + j) \in Keys

BlocksPerFrame == PAYLOAD_SIZE \div BLOCK_SIZE

\* Block j (from 0) of the payloads of the response frames, concatenated.
WireBlock(j) == frames[(j \div BlocksPerFrame) + 1].payload[(j % BlocksPerFrame) + 1]

\* C1: a READ at sector c*8 for a key c of the ChunkMap, of k whole blocks
\* over the contiguous keys c..c+k-1, whose device sub-reads succeed, is
\* answered RESP_SUCCESS in every frame and the payload bytes are, block by
\* block, the data of the op of each key: the COW payload of a Replace, zeros
\* of a Zero, the base-device block at the source of a Copy.
C1_RoundTripRead ==
    (DataRead /\ "ReadData" \notin io_failed) =>
        /\ pc # "aborted"
        /\ \A t \in 1..Len(frames) : frames[t].header.type = DM_USER_RESP_SUCCESS
        /\ \A j \in 0..(ReqBlocks - 1) :
              (j \div BlocksPerFrame) < Len(frames) =>
                  WireBlock(j) = [page |-> OpData(ReqChunk + j), bytes |-> BLOCK_SIZE]
        /\ pc = "Run" =>
              Len(frames) = (ReqBlocks + BlocksPerFrame - 1) \div BlocksPerFrame

\* C1 happens: a READ of more than one frame over contiguous keys is answered.
C1_Witness ==
    /\ pc = "Run"
    /\ DataRead
    /\ io_failed = {}
    /\ ReqBlocks > BlocksPerFrame
    /\ Len(frames) = 2

\* C2: when ReadMetadata returns, the ChunkMap has exactly one key for each
\* Replace/Zero/Copy op of the log and none for Label/Footer ops, and the
\* keys in ascending order name the ops in the reverse of their forward
\* order.
C2_ReverseAssignment ==
    MetadataBuilt =>
        /\ { chunk_map_[c] : c \in Keys } = MergeableIdx
        /\ Cardinality(Keys) = Cardinality(MergeableIdx)
        /\ \A a, b \in Keys : a < b => chunk_map_[a] > chunk_map_[b]

\* C2 happens: a log with a Label op and several keyed ops has been read.
C2_Witness ==
    /\ MetadataBuilt
    /\ Cardinality(Keys) >= exceptions_per_area_ \div 2
    /\ \E i \in 1..log.n : CowOp(log, i).type = kCowLabelOp

\* C3: the key of a Copy op is contiguous with no other key: neither the
\* chunk before it nor the chunk after it is a key.
C3_NoContiguousCopies ==
    \A c \in Keys :
        KeyOp(c).type = kCowCopyOp => (c - 1) \notin Keys /\ (c + 1) \notin Keys

\* C3 happens: a Copy op has a key between the keys of other ops.
C3_Witness ==
    /\ MetadataBuilt
    /\ \E c \in Keys :
          /\ KeyOp(c).type = kCowCopyOp
          /\ \E d \in Keys : d < c /\ KeyOp(d).type # kCowCopyOp
          /\ \E e \in Keys : e > c /\ KeyOp(e).type # kCowCopyOp

\* C4: num_merge_ops never decreases and never exceeds the number of
\* Replace/Zero/Copy ops of the log.
C4_MergeMonotone ==
    [][/\ num_merge_ops' >= num_merge_ops
       /\ num_merge_ops' <= NumMergeableOps(log')]_vars

\* C4 happens: every op of a log that fills an area has been merged.
C4_Witness ==
    /\ num_merge_ops = NumMergeableOps(log)
    /\ num_merge_ops >= exceptions_per_area_

\* C5: when ReadMetadata returns, the i-th (from 0) Replace/Zero/Copy op of
\* the reverse pass has its exception {old_chunk = new_block, new_chunk = its
\* key} in area floor(i / exceptions_per_area_) at slot
\* i mod exceptions_per_area_, the ChunkMap maps that key to the op, and every
\* slot past the last op is zero.
C5_ExceptionPlacement ==
    MetadataBuilt =>
        /\ \A idx \in MergeableIdx :
              LET i    == ReversePos(idx)
                  area == i \div exceptions_per_area_
                  slot == i % exceptions_per_area_
              IN  /\ area < Len(vec_)
                  /\ \E c \in Keys :
                        /\ chunk_map_[c] = idx
                        /\ At(vec_[area + 1], slot + 1) =
                              [old_chunk |-> CowOp(log, idx).new_block, new_chunk |-> c]
        /\ \A k \in 1..Len(vec_) :
              /\ Len(vec_[k]) <= exceptions_per_area_
              /\ \A sl \in 1..Len(vec_[k]) :
                    (k - 1) * exceptions_per_area_ + sl > Cardinality(MergeableIdx)
                        => vec_[k][sl] = ZeroDe

\* C5 happens: the exceptions of a log spill into a second area.
C5_Witness ==
    /\ MetadataBuilt
    /\ Cardinality(MergeableIdx) > exceptions_per_area_
    /\ Len(vec_) = 2

\* C6: next_free is never a metadata chunk and never below 2; every
\* ChunkMap key is at least 2, is not a metadata chunk and is below
\* next_free; once ReadMetadata has returned the sector count is
\* next_free * 8.
C6_DataChunksNotMetadata ==
    /\ next_free >= 2
    /\ (next_free % (exceptions_per_area_ + 1)) # NUM_SNAPSHOT_HDR_CHUNKS
    /\ \A c \in Keys :
          /\ c >= 2
          /\ (c % (exceptions_per_area_ + 1)) # NUM_SNAPSHOT_HDR_CHUNKS
          /\ c < next_free
    /\ metadata_read_done_ => num_sectors_ = next_free * CHUNK_SIZE

\* C6 happens: the keys run past the second metadata chunk.
C6_Witness ==
    /\ metadata_read_done_
    /\ exceptions_per_area_ + 1 \in Keys
    /\ exceptions_per_area_ + 3 \in Keys
    /\ exceptions_per_area_ + 2 \notin Keys

\* The new_chunk values of the non-zero entries of stored area k (from 0).
AreaChunks(k) ==
    { vec_[k + 1][sl].new_chunk : sl \in 1..Len(vec_[k + 1]) } \ {0}

\* The entries of a stored area are in ascending new_chunk order.
Ascending(area) ==
    \A sl \in 1..(Len(area) - 1) :
        area[sl + 1] # ZeroDe => area[sl].new_chunk < area[sl + 1].new_chunk

\* C7 as stated: area k holds, in ascending order, exactly the exceptions
\* whose new_chunk lies strictly between k*257 and (k+1)*257, at most 256 of
\* them.
C7_AreaLayout_Stated ==
    MetadataBuilt =>
        \A k \in 0..(Len(vec_) - 1) :
            LET stride == exceptions_per_area_ + 1
            IN  /\ Cardinality(AreaChunks(k)) <= exceptions_per_area_
                /\ Ascending(vec_[k + 1])
                /\ AreaChunks(k) = { c \in Keys : k * stride < c /\ c < (k + 1) * stride }

\* C7: area k holds, in ascending new_chunk order, at most 256 non-zero
\* exceptions: those of the Replace/Zero/Copy ops number 256k .. 256k+255 of
\* the reverse pass.  When the log has no Copy op these are exactly the
\* exceptions whose new_chunk lies in k*257 + 2 .. (k+1)*257.
C7_AreaLayout ==
    MetadataBuilt =>
        \A k \in 0..(Len(vec_) - 1) :
            LET stride == exceptions_per_area_ + 1
            IN  /\ Cardinality(AreaChunks(k)) <= exceptions_per_area_
                /\ Ascending(vec_[k + 1])
                /\ AreaChunks(k) =
                      { c \in Keys :
                          ReversePos(chunk_map_[c]) \div exceptions_per_area_ = k }
                /\ (\A i \in MergeableIdx : CowOp(log, i).type # kCowCopyOp) =>
                      AreaChunks(k) =
                          { c \in Keys : k * stride + 2 <= c /\ c <= (k + 1) * stride }

\* C7 happens: a log without Copy ops fills area 0 up to chunk 257 and goes
\* on into area 1.
C7_Witness ==
    /\ MetadataBuilt
    /\ Len(vec_) = 2
    /\ \A i \in MergeableIdx : CowOp(log, i).type # kCowCopyOp
    /\ exceptions_per_area_ + 1 \in AreaChunks(0)
    /\ AreaChunks(1) # {}

\* req is a READ off sector 0 at a chunk that is not a key.
MetadataRead ==
    /\ req.type = DM_USER_REQ_MAP_READ
    /\ req.seq # 0
    /\ req.sector # 0
    /\ ReqChunk \notin Keys

\* The bytes frame t of the response to req carries.
FrameSize(t) == Min(PAYLOAD_SIZE, req.len - (t - 1) * PAYLOAD_SIZE)

\* Area floor(chunk / 257) as it stands, or zeros past the stored areas.
AreaBytes(chunk) ==
    LET idx == chunk \div (exceptions_per_area_ + 1)
    IN  IF idx < Len(vec_) THEN AreaPage(vec_[idx + 1]) ELSE ZeroPage

\* C8: a READ off sector 0 at a chunk that is not a key is served from area
\* idx = floor(chunk / 257): a frame of read_size <= 4096 bytes is answered
\* RESP_SUCCESS with the first read_size bytes of the area as it stands (of
\* zeros when idx is past the stored areas) and the payload buffer holds the
\* area's 4096 bytes; a frame of read_size > 4096 is answered RESP_ERROR.
C8_MetadataRead ==
    MetadataRead =>
        /\ pc # "aborted"
        /\ \A t \in 1..Len(frames) :
              IF FrameSize(t) <= BLOCK_SIZE
              THEN /\ frames[t].header.type = DM_USER_RESP_SUCCESS
                   /\ frames[t].payload =
                         IF FrameSize(t) = 0 THEN <<>>
                         ELSE << TruncatePage(AreaBytes(ReqChunk), FrameSize(t)) >>
              ELSE frames[t].header.type = DM_USER_RESP_ERROR
        /\ (frames # <<>> /\ FrameSize(Len(frames)) <= BLOCK_SIZE
                /\ pc \in {"Run", "MAP_READ"}) =>
              payload[0] = AreaBytes(ReqChunk)

\* C8 happens: a stored, non-empty area has been read whole.
C8_Witness ==
    /\ pc = "Run"
    /\ MetadataRead
    /\ req.len = BLOCK_SIZE
    /\ Len(frames) = 1
    /\ AreaBytes(ReqChunk) # ZeroPage
    /\ frames[1].payload = << [page |-> AreaBytes(ReqChunk), bytes |-> BLOCK_SIZE] >>

\* The number of frames a READ of req.len bytes takes.
FramesNeeded ==
    IF req.len = 0 THEN 1 ELSE (req.len + PAYLOAD_SIZE - 1) \div PAYLOAD_SIZE

RECURSIVE PayloadBytes(_)
PayloadBytes(fs) ==
    IF fs = <<>> THEN 0
    ELSE (Head(fs).bytes - SizeofDmUserHeader) + PayloadBytes(Tail(fs))

\* C9: the frames written for a READ of L bytes carry, in order,
\* min(PAYLOAD_SIZE, bytes left) payload bytes each behind the request's
\* header with only the type replaced by RESP_SUCCESS or RESP_ERROR; the
\* loop ends after max(1, ceil(L / PAYLOAD_SIZE)) frames whose payload sizes
\* sum to L, and while it runs fewer frames are written and remaining_size
\* is what is left of L.
C9_ReadFraming ==
    (req.type = DM_USER_REQ_MAP_READ /\ req.seq # 0) =>
        /\ Len(frames) <= FramesNeeded
        /\ \A t \in 1..Len(frames) :
              /\ frames[t].bytes = SizeofDmUserHeader + FrameSize(t)
              /\ \E ty \in {DM_USER_RESP_SUCCESS, DM_USER_RESP_ERROR} :
                    frames[t].header = [req EXCEPT !.type = ty]
        /\ pc = "Run" =>
              /\ Len(frames) = FramesNeeded
              /\ PayloadBytes(frames) = req.len
        /\ pc = "MAP_READ" =>
              /\ Len(frames) < FramesNeeded
              /\ remaining_size = req.len - PayloadBytes(frames)

\* C9 happens: a READ longer than PAYLOAD_SIZE has been answered in two
\* frames, the last one short.
C9_Witness ==
    /\ pc = "Run"
    /\ req.type = DM_USER_REQ_MAP_READ
    /\ req.len > PAYLOAD_SIZE
    /\ Len(frames) = 2
    /\ frames[1].bytes = SizeofDmUserHeader + PAYLOAD_SIZE
    /\ frames[2].bytes = SizeofDmUserHeader + (req.len - PAYLOAD_SIZE)

\* C10: when Run returns true for a request header it has read, whatever
\* the type field, at least one response frame has been written for it, and
\* every frame written carries the request's seq.
C10_EveryRequestAnswered ==
    (pc = "Run" /\ req.seq # 0) =>
        /\ Len(frames) >= 1
        /\ \A t \in 1..Len(frames) : frames[t].header.seq = req.seq

\* C11: when a sub-read fails while a READ over contiguous keys is served,
\* the daemon does not stop: the frame is written with RESP_ERROR and its
\* read_size payload bytes, the remaining frames are written, and Run
\* returns true after max(1, ceil(L / PAYLOAD_SIZE)) frames.
C11_SubReadFailureNotFatal ==
    (DataRead /\ "ReadData" \in io_failed) =>
        /\ pc # "aborted"
        /\ \A t \in 1..Len(frames) :
              frames[t].bytes = SizeofDmUserHeader + FrameSize(t)
        /\ pc \in {"Run", "MAP_READ"} =>
              \E t \in 1..Len(frames) : frames[t].header.type = DM_USER_RESP_ERROR
        /\ pc = "Run" => Len(frames) = FramesNeeded

\* req is a READ of whole blocks that starts at a key and reaches, within
\* its size, a chunk that is not a key; none of its keys is a Copy op.
UnknownChunkRead ==
    /\ req.type = DM_USER_REQ_MAP_READ
    /\ req.sector = ReqChunk * CHUNK_SIZE
    /\ ReqChunk \in Keys
    /\ req.len % BLOCK_SIZE = 0
    /\ \E j \in 1..(ReqBlocks - 1) : (ReqChunk + j) \notin Keys
    /\ \A j \in 0..(ReqBlocks - 1) :
          (ReqChunk + j) \in Keys => KeyOp(ReqChunk + j).type # kCowCopyOp

\* C12: a data READ that starts at a key and reaches a chunk absent from
\* the ChunkMap does not stop the daemon: it is answered with a frame of
\* type RESP_ERROR and Run returns true.
C12_UnknownChunkIsRequestError ==
    UnknownChunkRead =>
        /\ pc # "aborted"
        /\ pc = "Run" =>
              \E t \in 1..Len(frames) : frames[t].header.type = DM_USER_RESP_ERROR

\* The operations on the control device.
ControlDeviceIo == {"ReadDmUserHeader", "ReadDmUserPayload", "WriteDmUserPayload"}

\* C13: when a read or a write on the control device has failed while the
\* request is served, Run has returned false; and when it is the read of the
\* payload of a merge-completion WRITE that failed, no response frame has
\* been written for the request.
C13_ControlDeviceFailureFatal ==
    (io_failed \cap ControlDeviceIo # {}) =>
        /\ pc = "exited"
        /\ "ReadDmUserPayload" \in io_failed => frames = <<>>

(***************************************************************************)
(* The BufferSink on its own: a caller (ReadData, the CowReader through    *)
(* GetBuffer) asks for a region, fills it and advances the offset, or      *)
(* resets the offset.                                                      *)
(***************************************************************************)
\* Calls recorded between two resets.
MaxRegions == 3

\* Sizes asked for: within the payload, up to its end, and just past it.
SinkSizes ==
    { 1, SizeofDmUserHeader, BLOCK_SIZE, PAYLOAD_SIZE - BLOCK_SIZE, PAYLOAD_SIZE,
      PAYLOAD_SIZE + 1, PAYLOAD_SIZE + SizeofDmUserHeader,
      PAYLOAD_SIZE + SizeofDmUserHeader + 1 }

GetBuffer(requested, off) ==
    LET buf == GetPayloadBuffer(requested, off)
    IN  IF buf = NULL THEN [buf |-> NULL, actual |-> 0]
        ELSE [buf |-> buf, actual |-> requested]

\* BufferSink::UpdateBufferOffset and BufferSink::ResetBufferOffset.
UpdateBufferOffset(off, size) == off + size

ResetBufferOffset == 0

SinkInit ==
    /\ pc = "BufferSink"
    /\ log = [n |-> 0, types |-> <<>>, base |-> 0]
    /\ cowop_riter_ = 0
    /\ cowop_iter_ = 0
    /\ next_free = NUM_SNAPSHOT_HDR_CHUNKS + 1
    /\ prev_copy_op = FALSE
    /\ metadata_found = FALSE
    /\ num_ops = 0
    /\ de_ptr = ZeroArea
    /\ vec_ = <<>>
    /\ chunk_map_ = <<>>
    /\ num_sectors_ = 0
    /\ metadata_read_done_ = FALSE
    /\ num_merge_ops = 0
    /\ merge_progress = 0
    /\ header = ZeroHeader
    /\ payload = ZeroPayload
    /\ buffer_offset_ = 0
    /\ remaining_size = 0
    /\ offset = 0
    /\ req = ZeroHeader
    /\ frames = <<>>
    /\ io_failed = {}
    /\ regions = <<>>
    /\ replay = <<>>

\* GetPayloadBuffer(n), and UpdateBufferOffset(n) when a region is returned.
SinkGetPayloadBuffer ==
    /\ pc = "BufferSink"
    /\ Len(regions) < MaxRegions
    /\ \E n \in SinkSizes :
         LET buf == GetPayloadBuffer(n, buffer_offset_)
         IN  /\ regions' = Append(regions, [call |-> "GetPayloadBuffer", size |-> n,
                                            offset |-> buffer_offset_, buffer |-> buf])
             /\ buffer_offset_' = IF buf = NULL THEN buffer_offset_
                                  ELSE UpdateBufferOffset(buffer_offset_, n)
    /\ UNCHANGED <<pc, metaVars, mergeVars, header, payload, runVars, replay>>

\* GetBuffer(n, &actual), and UpdateBufferOffset(actual).
SinkGetBuffer ==
    /\ pc = "BufferSink"
    /\ Len(regions) < MaxRegions
    /\ \E n \in SinkSizes :
         LET r == GetBuffer(n, buffer_offset_)
         IN  /\ regions' = Append(regions, [call |-> "GetBuffer", size |-> n,
                                            offset |-> buffer_offset_, buffer |-> r.buf])
             /\ buffer_offset_' = UpdateBufferOffset(buffer_offset_, r.actual)
    /\ UNCHANGED <<pc, metaVars, mergeVars, header, payload, runVars, replay>>

SinkResetBufferOffset ==
    /\ pc = "BufferSink"
    /\ regions # <<>>
    /\ regions' = <<>>
    /\ buffer_offset_' = ResetBufferOffset
    /\ UNCHANGED <<pc, metaVars, mergeVars, header, payload, runVars, replay>>

SinkNext ==
    \/ SinkGetPayloadBuffer
    \/ SinkGetBuffer
    \/ SinkResetBufferOffset

SinkSpec == SinkInit /\ [][SinkNext]_vars

\* C14: a call for n bytes at offset o returns null exactly when
\* n > PAYLOAD_SIZE - o; a region returned starts at o and ends at or
\* before the end of the PAYLOAD_SIZE payload; the regions returned since
\* the last reset lie one after the other from offset 0.
C14_BufferSinkBounds ==
    /\ \A i \in 1..Len(regions) :
          /\ (regions[i].buffer = NULL) <=> (regions[i].size > PAYLOAD_SIZE - regions[i].offset)
          /\ regions[i].buffer # NULL =>
                /\ regions[i].buffer = regions[i].offset
                /\ regions[i].buffer + regions[i].size <= PAYLOAD_SIZE
    /\ regions # <<>> => regions[1].offset = 0
    /\ \A i \in 1..(Len(regions) - 1) :
          regions[i + 1].offset =
              IF regions[i].buffer = NULL THEN regions[i].offset
              ELSE regions[i].offset + regions[i].size

(***************************************************************************)
(* The daemon with a kernel that may issue a metadata READ a second time.  *)
(***************************************************************************)
\* Run is entered after an answered READ of a metadata chunk, and the
\* header it reads names the same sector and len again.
RunAgain ==
    /\ pc = "Run"
    /\ MetadataRead
    /\ frames # <<>>
    /\ replay = <<>>
    /\ \E tag \in ReqTags :
         LET h == [req EXCEPT !.seq = tag[1], !.flags = tag[2]]
         IN  /\ header' = h
             /\ req' = h
             /\ remaining_size' = h.len
    /\ payload' = Clear.payload
    /\ buffer_offset_' = Clear.buffer_offset_
    /\ offset' = 0
    /\ frames' = <<>>
    /\ io_failed' = {}
    /\ replay' = frames
    /\ pc' = "MAP_READ"
    /\ UNCHANGED <<metaVars, mergeVars, regions>>

ReplayNext ==
    \/ Next
    \/ RunAgain

ReplaySpec == Init /\ [][ReplayNext]_vars

\* What a frame carries besides the echoed header fields.
FrameBytes(f) == [type |-> f.header.type, bytes |-> f.bytes, payload |-> f.payload]

\* C15: serving a READ of a metadata chunk changes neither the areas, nor
\* the ChunkMap, nor the forward iterator, nor the merge counts; and the
\* frames written for the same READ issued again carry the same bytes as
\* the frames written the first time.
C15_IdempotentAreaRead ==
    /\ [](replay # <<>> =>
            /\ Len(frames) <= Len(replay)
            /\ \A t \in 1..Len(frames) : FrameBytes(frames[t]) = FrameBytes(replay[t])
            /\ pc = "Run" => Len(frames) = Len(replay))
    /\ [][((pc = "MAP_READ" \/ pc' = "MAP_READ") /\ MetadataRead') =>
              UNCHANGED <<vec_, chunk_map_, cowop_iter_, merge_progress, num_merge_ops>>]_vars

\* C15 happens: a stored area with live entries has been read twice.
C15_Witness ==
    /\ pc = "Run"
    /\ replay # <<>>
    /\ Len(frames) = Len(replay)
    /\ frames[1].header.type = DM_USER_RESP_SUCCESS
    /\ req.len = BLOCK_SIZE
    /\ AreaBytes(ReqChunk) # ZeroPage

\* req is a WRITE at sector 0 with len 0.
FlushWrite ==
    /\ req.type = DM_USER_REQ_MAP_WRITE
    /\ req.sector = 0
    /\ req.len = 0

\* C16: a WRITE at sector 0 with len 0 is answered by one frame of the
\* header alone, of type RESP_SUCCESS, and serving it changes neither the
\* areas, nor the ChunkMap, nor the forward iterator, nor the merge counts.
C16_FlushWrite ==
    /\ [](FlushWrite =>
            /\ pc # "aborted"
            /\ Len(frames) <= 1
            /\ pc = "Run" =>
                  frames = << [header  |-> [req EXCEPT !.type = DM_USER_RESP_SUCCESS],
                               bytes   |-> SizeofDmUserHeader,
                               payload |-> <<>>] >>)
    /\ [][(pc = "MAP_WRITE" /\ FlushWrite) =>
              UNCHANGED <<vec_, chunk_map_, cowop_iter_, merge_progress, num_merge_ops>>]_vars

\* C16 happens: a flush has been answered after a merge.
C16_Witness ==
    /\ pc = "Run"
    /\ FlushWrite
    /\ Len(frames) = 1
    /\ num_merge_ops > 0

(***************************************************************************)
(* Merge reconciliation.                                                   *)
(***************************************************************************)
\* The chunk a WRITE addresses.
MergeChunk == SectorToChunk(header.sector)

\* Run is about to reconcile a merge-completion WRITE for a stored area.
MergeRequested ==
    /\ pc = "MAP_WRITE"
    /\ header.sector # 0
    /\ Min(PAYLOAD_SIZE, header.len) = BLOCK_SIZE
    /\ MergeChunk \notin DOMAIN chunk_map_
    /\ MergeChunk \div (exceptions_per_area_ + 1) < Len(vec_)

\* The payload area once the kernel's page is read into it.
MergeBuffer(page) ==
    StorePage(payload, GetPayloadBuffer(BLOCK_SIZE, buffer_offset_), page)

\* C17: reconciliation stays inside the area.  Whatever page the kernel
\* delivers for a stored area, the loop of GetNumberOfMergedOps never
\* dereferences the stored area at index exceptions_per_area_ or beyond:
\* it halts once unmerged + merged_now = exceptions_per_area_, also when
\* the area is full and merged up to its last slot.
C17_ReconcileInsideArea ==
    MergeRequested =>
        \A page \in IncomingPages(MergeChunk), oob \in OobChoices(AreaOf(MergeChunk)) :
            LET a == GetMergeStartOffset(MergeBuffer(page), AreaOf(MergeChunk))
                b == GetNumberOfMergedOps(MergeBuffer(page), AreaOf(MergeChunk),
                                          a.offset, a.unmerged_exceptions, oob)
            IN  a.ret = "ok" => b.top < exceptions_per_area_

\* Number of mergeable ops at the forward positions from up to (not
\* including) to.
MergeablePassed(from, to) ==
    Cardinality({ i \in from..(to - 1) : IsMergeable(CowOp(log, i)) })

\* The step reconciles the page whose frontier is j with no device or
\* commit failure.
MergeCycle(j) ==
    /\ MergeRequested
    /\ j < LiveEntries(AreaOf(MergeChunk))
    /\ payload' = MergeBuffer(MergedPage(AreaOf(MergeChunk), j))
    /\ io_failed' = {}

\* What the claim states of a merge cycle over frontier j.
MergeCycleEffect(j) ==
    LET quot == MergeChunk \div (exceptions_per_area_ + 1)
        m    == LiveEntries(AreaOf(MergeChunk))
    IN  /\ vec_' = [vec_ EXCEPT ![quot + 1] = SubSeq(@, 1, j)]
        /\ MergeablePassed(cowop_iter_, cowop_iter_') = m - j
        /\ num_merge_ops' = num_merge_ops + (m - j)
        /\ merge_progress' = merge_progress + (m - j)
        /\ pc' = "Run"
        /\ frames' = Append(frames,
                           [header  |-> [header EXCEPT !.type = DM_USER_RESP_SUCCESS],
                            bytes   |-> SizeofDmUserHeader,
                            payload |-> <<>>])

\* C18: merge cycle effect.  A merge-completion page equal to the stored
\* area on entries [0, j) and zero from j on, for a stored area live at
\* [0, m) with j < m, zeroes exactly the stored entries [j, m), leaves the
\* other areas unchanged, advances the forward iterator past m - j
\* mergeable ops, commits m - j and is answered DM_USER_RESP_SUCCESS with
\* no payload.
C18_MergeCycleEffect ==
    [][\A j \in 0..exceptions_per_area_ : MergeCycle(j) => MergeCycleEffect(j)]_vars

\* Number of live entries of the first k stored areas.
RECURSIVE LiveUpTo(_)
LiveUpTo(k) == IF k = 0 THEN 0 ELSE LiveUpTo(k - 1) + LiveEntries(vec_[k])

TotalLive == LiveUpTo(Len(vec_))

\* The forward iterator has passed as many mergeable ops as stored
\* exceptions were zeroed.
IterInStep == MergeablePassed(1, cowop_iter_) + TotalLive = NumMergeableOps(log)

\* The same for the areas that are not full and whose entries below the
\* frontier have old_chunk # 0, as long as the iterator is in step.
C18_MergeCycleEffect_NotFull ==
    [][\A j \in 0..exceptions_per_area_ :
          (/\ MergeCycle(j)
           /\ LiveEntries(AreaOf(MergeChunk)) < exceptions_per_area_
           /\ IterInStep
           /\ \A i \in 1..j : AreaOf(MergeChunk)[i].old_chunk # 0)
              => MergeCycleEffect(j)]_vars

\* The data chunks whose exception is still live in the table.
LiveChunks ==
    UNION { { vec_[a][i].new_chunk : i \in 1..Len(vec_[a]) } \ {0} : a \in 1..Len(vec_) }

\* The forward iterator has passed M mergeable ops, M stored exceptions
\* are zeroed, M is the count committed, and the zeroed exceptions are
\* those of the ops the iterator has passed.
MergeOrder ==
    LET M == MergeablePassed(1, cowop_iter_)
    IN  /\ M + TotalLive = NumMergeableOps(log)
        /\ M = num_merge_ops
        /\ LiveChunks = { c \in Keys : chunk_map_[c] >= cowop_iter_ }

\* The step reconciles a merge of the tail [j, m) of the last non-empty
\* area, and the commit succeeds.
TailFirstMerge(j) ==
    /\ MergeCycle(j)
    /\ \A a \in 1..Len(vec_) :
           a > (MergeChunk \div (exceptions_per_area_ + 1)) + 1 => LiveEntries(vec_[a]) = 0

\* C19: merge order invariant.  While the kernel merges from the tail of
\* the last non-empty area backward and every commit succeeds, each
\* merge-completion keeps the ops passed by the forward iterator, the
\* exceptions zeroed and the count committed equal, the zeroed exceptions
\* being those of the ops passed, and no assertion stops the daemon.
C19_MergeOrder ==
    [][\A j \in 0..exceptions_per_area_ :
          (TailFirstMerge(j) /\ MergeOrder) => (MergeOrder' /\ pc' # "aborted")]_vars

\* The same for the areas that are not full and whose entries below the
\* frontier have old_chunk # 0.
C19_MergeOrder_NotFull ==
    [][\A j \in 0..exceptions_per_area_ :
          (/\ TailFirstMerge(j)
           /\ LiveEntries(AreaOf(MergeChunk)) < exceptions_per_area_
           /\ \A i \in 1..j : AreaOf(MergeChunk)[i].old_chunk # 0
           /\ MergeOrder)
              => (MergeOrder' /\ pc' # "aborted")]_vars

(***************************************************************************)
(* The merge, driven by the kernel: after ReadMetadata the only requests   *)
(* are merge-completion WRITEs for the last area that still holds a live   *)
(* exception, each with at least one newly merged exception, and no device *)
(* operation or commit fails.                                              *)
(***************************************************************************)
\* The last stored area (1-based) holding a live exception, 0 when none.
LastLiveArea ==
    IF TotalLive = 0 THEN 0
    ELSE CHOOSE a \in 1..Len(vec_) :
             /\ LiveEntries(vec_[a]) > 0
             /\ \A b \in (a + 1)..Len(vec_) : LiveEntries(vec_[b]) = 0

\* The backing and control devices open.
DevicesOpen == InitBackingAndControlDevice /\ pc' = "Run"

\* The kernel issues the merge-completion WRITE of the last live area.
KernelMergeHeader ==
    /\ LastLiveArea # 0
    /\ RunHeader
    /\ header'.type = DM_USER_REQ_MAP_WRITE
    /\ header'.len = BLOCK_SIZE
    /\ header'.sector = ChunkToSector((LastLiveArea - 1) * (exceptions_per_area_ + 1)
                                       + NUM_SNAPSHOT_HDR_CHUNKS)

\* Run reconciles the page, which carries a newly merged tail.
KernelMergeWrite ==
    /\ MapWriteMerge
    /\ \E j \in MergeFrontiers(LiveEntries(AreaOf(MergeChunk))) : MergeCycle(j)

MergeNext ==
    \/ ReadMetadataSkip
    \/ ReadMetadataUnknown
    \/ ReadMetadataOp
    \/ ReadMetadataDone
    \/ DevicesOpen
    \/ RunEnter
    \/ KernelMergeHeader
    \/ KernelMergeWrite

\* The steps up to the dispatch of a request.
MergeDeliver ==
    \/ ReadMetadataSkip
    \/ ReadMetadataUnknown
    \/ ReadMetadataOp
    \/ ReadMetadataDone
    \/ DevicesOpen
    \/ RunEnter
    \/ KernelMergeHeader

\* The daemon runs and the kernel keeps delivering: a step that can be
\* taken is taken.  KernelMergeWrite is enabled exactly when pc is
\* "MAP_WRITE" and leaves it, so its weak fairness, WF_vars(KernelMergeWrite),
\* is that pc is not "MAP_WRITE" for ever.
MergeSpec ==
    /\ Init
    /\ [][MergeNext]_vars
    /\ WF_vars(MergeDeliver)
    /\ []<>(pc # "MAP_WRITE")

\* Every stored exception is zero, the forward iterator has passed every
\* mergeable op and the committed count is their number.
MergeDone ==
    /\ TotalLive = 0
    /\ MergeablePassed(1, cowop_iter_) = NumMergeableOps(log)
    /\ num_merge_ops = NumMergeableOps(log)

\* C20: merge completes.  While the kernel keeps delivering well-formed
\* tail-first merge-completion pages and nothing fails, no assertion stops
\* the daemon and eventually every exception is zero, the iterator has
\* passed every mergeable op and num_merge_ops is their number, for any
\* number of ops, multiples of exceptions_per_area_ included.
C20_MergeCompletes ==
    /\ [](pc # "aborted")
    /\ MetadataBuilt ~> MergeDone

\* The same for the logs of fewer than exceptions_per_area_ ops with no op
\* on block 0.
C20_MergeCompletes_NotFull ==
    /\ []((log.n < exceptions_per_area_ /\ log.base # 0) => pc # "aborted")
    /\ (MetadataBuilt /\ log.n < exceptions_per_area_ /\ log.base # 0) ~> MergeDone

(***************************************************************************)
(* The exception table once more.                                          *)
(***************************************************************************)
\* Number of areas needed for n exceptions: max(1, ceil(n / 256)).
AreasFor(n) ==
    IF n = 0 THEN 1
    ELSE (n + exceptions_per_area_ - 1) \div exceptions_per_area_

\* C21: area count.  For a CowLog with N mergeable ops the table built by
\* ReadMetadata holds exactly max(1, ceil(N / exceptions_per_area_)) areas,
\* wherever the Label and Footer ops are.
C21_AreaCount ==
    MetadataBuilt => Len(vec_) = AreasFor(NumMergeableOps(log))

\* The log has exceptions_per_area_ mergeable ops.
OneFullArea == NumMergeableOps(log) = exceptions_per_area_

\* What the table holds for such a log: one area when a Label or Footer op
\* precedes the first mergeable op, two when the log starts with it.
C21_AreaCount_Full ==
    (MetadataBuilt /\ OneFullArea) =>
        Len(vec_) = IF IsMergeable(CowOp(log, 1)) THEN 2 ELSE 1

\* The same for the logs whose number of mergeable ops is no positive
\* multiple of exceptions_per_area_.
C21_AreaCount_Partial ==
    (MetadataBuilt /\ (NumMergeableOps(log) % exceptions_per_area_ # 0
                        \/ NumMergeableOps(log) = 0))
        => Len(vec_) = AreasFor(NumMergeableOps(log))

(***************************************************************************)
(* The BufferSink offset across ReadData.                                  *)
(***************************************************************************)
\* The step is an iteration of the MAP_READ loop in which ReadData is
\* called and returns.
ReadDataReturns ==
    /\ pc = "MAP_READ"
    /\ header.sector # 0
    /\ SectorToChunk(header.sector) \in DOMAIN chunk_map_
    /\ pc' # "aborted"

\* C22: the BufferSink is reset after dispatch.  Whenever ReadData returns,
\* with success or after a failed sub-read, the BufferSink offset is 0.
C22_SinkResetAfterDispatch ==
    [][ReadDataReturns => buffer_offset_' = 0]_vars

\* The same for the calls that return true.
C22_SinkResetAfterSuccess ==
    [][(ReadDataReturns /\ header'.type = DM_USER_RESP_SUCCESS) => buffer_offset_' = 0]_vars

(***************************************************************************)
(* Chunk ids of a log without Copy ops.                                    *)
(***************************************************************************)
\* No op of the log is a Copy.
NoCopyOps == \A i \in 1..log.n : CowOp(log, i).type # kCowCopyOp

\* The chunk id stated for the i-th mergeable op of the reverse pass.
ChunkOfIndex(i) ==
    NUM_SNAPSHOT_HDR_CHUNKS + 1 + i + (i \div exceptions_per_area_)

\* C23: chunk allocation without copies.  In a log whose mergeable ops are
\* all Replace or Zero, the i-th op of the reverse pass (from 0) has chunk
\* id 2 + i + i \div 256, and entry e of area k names data chunk
\* k * 257 + 2 + e, the chunks that follow metadata chunk k * 257 + 1.
C23_ChunksWithoutCopies ==
    (MetadataBuilt /\ NoCopyOps) =>
        /\ \A c \in Keys : c = ChunkOfIndex(ReversePos(chunk_map_[c]))
        /\ \A k \in 1..Len(vec_) : \A e \in 1..Len(vec_[k]) :
               vec_[k][e].new_chunk =
                   (k - 1) * (exceptions_per_area_ + 1) + NUM_SNAPSHOT_HDR_CHUNKS + e

\* C23 happens: a log without Copy ops has filled area 0 and stored its
\* next exception in area 1.
C23_Witness ==
    /\ MetadataBuilt
    /\ NoCopyOps
    /\ Len(vec_) = 2
    /\ Len(vec_[1]) = exceptions_per_area_
    /\ Len(vec_[2]) = 1
    /\ vec_[2][1].new_chunk = exceptions_per_area_ + 3

(***************************************************************************)
(* Exceptions of ops on base block 0.                                      *)
(***************************************************************************)
\* The stored area has, below frontier j, the exception of an op on block 0.
BlockZeroBelow(j) ==
    \E i \in 1..j : /\ AreaOf(MergeChunk)[i].old_chunk = 0
                     /\ AreaOf(MergeChunk)[i].new_chunk # 0

\* C24: ops targeting base block 0 are mergeable.  A merge-completion page
\* that still carries the exception {old_chunk 0, new_chunk c} unmerged
\* below its frontier is reconciled without an assertion failure.
C24_BlockZeroMergeable ==
    [][\A j \in 0..exceptions_per_area_ :
          (MergeCycle(j) /\ BlockZeroBelow(j)) => pc' # "aborted"]_vars

(***************************************************************************)
(* Chunks that are no ChunkMap key.                                        *)
(***************************************************************************)
\* The chunk ids from the first data chunk up to the final next_free.
AllocatedRange == (NUM_SNAPSHOT_HDR_CHUNKS + 1)..(next_free - 1)

\* C25: metadata classification matches the metadata predicate.  Every
\* chunk id c with 2 <= c < next_free is a metadata chunk (c mod 257 = 1)
\* or a ChunkMap key, so that the chunks the request loop finds missing
\* from the ChunkMap are metadata chunks.
C25_MetadataClassification ==
    MetadataBuilt =>
        \A c \in AllocatedRange : IsChunkIdMetadata(c) \/ c \in Keys

\* The same for the logs without Copy ops.
C25_MetadataClassification_NoCopy ==
    (MetadataBuilt /\ NoCopyOps) =>
        \A c \in AllocatedRange : IsChunkIdMetadata(c) \/ c \in Keys

\* A READ of a chunk in the range that is no key is answered with a stored
\* area only if the chunk is a metadata chunk.
C25_ServesOnlyMetadata ==
    [][(/\ pc = "MAP_READ"
        /\ header.sector # 0
        /\ SectorToChunk(header.sector) \in AllocatedRange \ Keys
        /\ frames' # frames
        /\ header'.type = DM_USER_RESP_SUCCESS)
           => IsChunkIdMetadata(SectorToChunk(header.sector))]_vars

(***************************************************************************)
(* A commit that fails.                                                    *)
(***************************************************************************)
\* The step reconciles a merge-completion WRITE and CommitMerge fails.
CommitFails ==
    /\ MergeRequested
    /\ "CommitMerge" \in io_failed'

\* C26: a failed commit leaves the merge state unchanged.  When CommitMerge
\* fails the request is answered DM_USER_RESP_ERROR and the stored areas,
\* the forward iterator and the in-memory merge progress are as before the
\* request.
C26_FailedCommitUnchanged ==
    [][CommitFails =>
          /\ header'.type = DM_USER_RESP_ERROR
          /\ UNCHANGED <<vec_, cowop_iter_, merge_progress>>]_vars

\* What does hold of a failed commit: the answer is DM_USER_RESP_ERROR and
\* the durable count is as before.
C26_FailedCommitAnswer ==
    [][CommitFails =>
          /\ header'.type = DM_USER_RESP_ERROR
          /\ UNCHANGED num_merge_ops]_vars

=============================================================================
